---- MODULE Spec2Model ----
(***************************************************************************)
(* The adaptive multi-backend speech-capture engine of Mumble:             *)
(* AdaptiveSpeechRecognizer (src/src/shared/adaptive_speech.py) and the    *)
(* five backends it drives (pyaudio_recognizer.py, sounddevice_recogni-    *)
(* zer.py, cloud_speech.py), with the capture threads and the recognition  *)
(* worker threads of base_audio_recognizer.py.                             *)
(*                                                                         *)
(* An orchestrator call is one action, except that a backend stop that     *)
(* joins a live capture thread is split at the join: the capture threads   *)
(* run between the request and the return of the join, and the join may    *)
(* return because the thread ended or because its timeout expired.         *)
(***************************************************************************)
EXTENDS Integers, Sequences, FiniteSets, TLC

\* Bounds of the model.
MaxCalls == 3
MaxCaptureCalls == 2
MaxInst == 2
MaxThr == 2
MaxUtter == 2
MaxJoinUtter == 1
NumCallbacks == 2

Names == {"pyaudio", "sounddevice", "windows_speech", "web_api", "keyboard"}

\* AdaptiveSpeechRecognizer.__init__: the order of preference.
recognizer_preferences ==
    << "pyaudio", "sounddevice", "windows_speech", "web_api", "keyboard" >>

\* Names a caller may pass to switch_recognizer: the five backends and a
\* name that is none of them.
SwitchNames == Names \cup {"bogus"}

NoName == "none"
Callbacks == 1 .. NumCallbacks

\* A reference to a Thread object that is not alive (never started, or ended).
DeadThread == -1

VARIABLES
    constructed,        \* the AdaptiveSpeechRecognizer object exists
    current,            \* current_recognizer: 0 (None) or an instance
    recognizer_name,    \* recognizer_name: NoName (None) or a name
    failed_recognizers, \* failed_recognizers
    inst,               \* the backend instances that are current or still own a thread
    thr,                \* the capture / monitor threads that are alive
    workers,            \* recognition worker threads in flight
    utter,              \* utterances, blocks and lines captured so far
    delivered,          \* calls of the user's callback, in order
    finished,           \* outcome of every finished recognition worker
    call,               \* the orchestrator call that waits in a join
    calls,              \* how many calls the application has made
    last,               \* what the last orchestrator call did (history)
    constructible,      \* environment: the backends whose constructor succeeds
    platform,           \* environment: sys.platform
    speech,             \* environment: how many utterances and lines will come
    faults,             \* environment: Thread.start() and webbrowser.open may raise
    budget,             \* environment: how many calls the application makes
    race                \* where the two threads of an application are that
                        \* call start_listening and stop_listening of one
                        \* backend at the same time

vars == << constructed, current, recognizer_name, failed_recognizers, inst, thr,
           workers, utter, delivered, finished, call, calls, last,
           constructible, platform, speech, faults, budget, race >>

InstIds == 1 .. MaxInst
ThrIds == 1 .. MaxThr

NoInst == [kind |-> NoName, isListening |-> FALSE, stopRequested |-> FALSE,
           thread |-> 0, callback |-> 0, process |-> FALSE]
\* What an iteration of the sounddevice loop did with its temporary wav file.
NoTmp == [created |-> 0, written |-> 0, reloaded |-> 0, recognized |-> 0,
          unlinked |-> 0]
NoThr == [inst |-> 0, pc |-> "free", cb |-> 0, energy |-> 0, stage |-> "none",
          tmp |-> NoTmp]
NoCall == [op |-> "none", i |-> 0, t |-> 0, arg |-> NoName]
NoRace == [start |-> "none", stop |-> "none"]
NoLast == [op |-> "none", exc |-> FALSE, ret |-> FALSE,
           selRan |-> FALSE, selFailedBefore |-> {}, selAdopted |-> NoName,
           selRaised |-> FALSE, selCtorFailed |-> {},
           starts |-> << >>, stops |-> << >>, curBefore |-> NoName,
           arg |-> NoName, avail |-> << >>]

Min(S) == CHOOSE x \in S : \A y \in S : x <= y

\* The first free slot, 0 when there is none.
FreeInst(f) ==
    LET S == {i \in InstIds : f[i].kind = NoName} IN IF S = {} THEN 0 ELSE Min(S)
FreeThr(f) ==
    LET S == {t \in ThrIds : f[t].pc = "free"} IN IF S = {} THEN 0 ELSE Min(S)

ThreadAlive(f, t) == t \in ThrIds /\ f[t].pc # "free"

(***************************************************************************)
(* The orchestrator's code works on a record o: the orchestrator's fields  *)
(* (cur, name, failed), the instances and threads, the exception flag exc  *)
(* (an exception is propagating), over (the model ran out of slots) and    *)
(* the history g of the call.                                              *)
(***************************************************************************)
Here ==
    [cur |-> current, name |-> recognizer_name, failed |-> failed_recognizers,
     inst |-> inst, thr |-> thr, exc |-> FALSE, over |-> FALSE, g |-> NoLast]

\* AdaptiveSpeechRecognizer._create_recognizer: every exception of a
\* constructor is caught and None is returned; an unknown name gives None.
\* "instance" | "none"; the caller's handler for an exception is never reached.
create_recognizer(recognizer_type) ==
    IF recognizer_type \in Names /\ recognizer_type \in constructible
    THEN "instance"
    ELSE "none"

\* AdaptiveSpeechRecognizer._initialize_best_recognizer, from entry i of the
\* preference list on: [adopted, failed, raised, ctorFailed]; ctorFailed is
\* history: the names whose construction was tried and failed.
RECURSIVE initialize_best_from(_, _, _)
initialize_best_from(i, failed, ctorFailed) ==
    IF i > Len(recognizer_preferences)
    THEN [adopted |-> NoName, failed |-> failed, raised |-> TRUE,
          ctorFailed |-> ctorFailed]
    ELSE LET recognizer_type == recognizer_preferences[i]
             r == create_recognizer(recognizer_type)
         IN  IF recognizer_type \in failed
             THEN initialize_best_from(i + 1, failed, ctorFailed)
             ELSE CASE r = "instance" ->
                         [adopted |-> recognizer_type, failed |-> failed,
                          raised |-> FALSE, ctorFailed |-> ctorFailed]
                    [] r = "none" ->
                         initialize_best_from(i + 1, failed,
                                              ctorFailed \cup {recognizer_type})
                    [] OTHER ->  \* except Exception: failed_recognizers.add
                         initialize_best_from(i + 1, failed \cup {recognizer_type},
                                              ctorFailed \cup {recognizer_type})

\* <Backend>.get_name() of an instance of the class the name stands for.
get_name(kind) ==
    CASE kind = "pyaudio" -> "pyaudio"
      [] kind = "sounddevice" -> "sounddevice"
      [] kind = "web_api" -> "web_api"
      [] kind = "windows_speech" -> "windows_speech"
      [] kind = "keyboard" -> "keyboard"

\* A new instance of the named backend in slot i (the constructors' fields).
NewInstance(kind) == [NoInst EXCEPT !.kind = kind]

\* Instances that are neither current nor own a live thread are garbage.
Collect(instf, thrf, cur) ==
    [i \in InstIds |->
        IF i = cur \/ (\E t \in ThrIds : thrf[t].pc # "free" /\ thrf[t].inst = i)
        THEN instf[i] ELSE NoInst]

\* The selection without "if recognizer_type in self.failed_recognizers:
\* continue": it tries the failed names again.
initialize_best_recognizer_retrying_failed(o) ==
    LET s == initialize_best_from(1, {}, {})
        i == FreeInst(Collect(o.inst, o.thr, o.cur))
        g1 == [o.g EXCEPT !.selRan = TRUE, !.selFailedBefore = o.failed,
                          !.selAdopted = s.adopted, !.selRaised = s.raised,
                          !.selCtorFailed = s.ctorFailed]
    IN  IF s.raised
        THEN [o EXCEPT !.exc = TRUE, !.g = g1]
        ELSE IF i = 0
        THEN [o EXCEPT !.over = TRUE]
        ELSE [o EXCEPT !.cur = i, !.name = s.adopted,
                       !.inst = [Collect(o.inst, o.thr, o.cur) EXCEPT
                                    ![i] = NewInstance(s.adopted)],
                       !.g = g1]

\* The selection without its final "raise RuntimeError": an exhausted list
\* is logged and the method returns.
initialize_best_recognizer_silent(o) ==
    LET s == initialize_best_from(1, o.failed, {})
        i == FreeInst(Collect(o.inst, o.thr, o.cur))
        g1 == [o.g EXCEPT !.selRan = TRUE, !.selFailedBefore = o.failed,
                          !.selAdopted = s.adopted, !.selRaised = s.raised,
                          !.selCtorFailed = s.ctorFailed]
    IN  IF s.raised
        THEN [o EXCEPT !.failed = s.failed, !.g = g1]
        ELSE IF i = 0
        THEN [o EXCEPT !.over = TRUE]
        ELSE [o EXCEPT !.failed = s.failed, !.cur = i, !.name = s.adopted,
                       !.inst = [Collect(o.inst, o.thr, o.cur) EXCEPT
                                    ![i] = NewInstance(s.adopted)],
                       !.g = g1]

\* _initialize_best_recognizer on the record o (current_recognizer is None
\* at each of its call sites).
initialize_best_recognizer(o) ==
    LET s == initialize_best_from(1, o.failed, {})
        i == FreeInst(Collect(o.inst, o.thr, o.cur))
        g1 == [o.g EXCEPT !.selRan = TRUE, !.selFailedBefore = o.failed,
                          !.selAdopted = s.adopted, !.selRaised = s.raised,
                          !.selCtorFailed = s.ctorFailed]
    IN  IF s.raised
        THEN [o EXCEPT !.failed = s.failed, !.exc = TRUE, !.g = g1]
        ELSE IF i = 0
        THEN [o EXCEPT !.over = TRUE]
        ELSE [o EXCEPT !.failed = s.failed, !.cur = i, !.name = s.adopted,
                       !.inst = [Collect(o.inst, o.thr, o.cur) EXCEPT
                                    ![i] = NewInstance(s.adopted)],
                       !.g = g1]

(***************************************************************************)
(* The backends' start_listening and stop_listening.                       *)
(***************************************************************************)

\* start_listening without "if self._is_listening_state: return".
Backend_start_listening_unguarded(o, i, c, fault, browserFail) ==
    LET k == o.inst[i].kind
        t == FreeThr(o.thr)
        o1 == [o EXCEPT !.inst[i].isListening = TRUE,
                        !.inst[i].stopRequested =
                            IF k = "web_api" THEN @ ELSE FALSE,
                        !.inst[i].callback =
                            IF k = "windows_speech" THEN @ ELSE c]
    IN  IF k = "windows_speech" /\ platform # "win32"
        THEN [o EXCEPT !.exc = TRUE]
        ELSE IF k = "web_api" /\ browserFail
        THEN [o EXCEPT !.inst[i].callback = c]
        ELSE IF fault
        THEN [o1 EXCEPT !.inst[i].thread = DeadThread, !.exc = TRUE]
        ELSE IF t = 0
        THEN [o EXCEPT !.over = TRUE]
        ELSE [o1 EXCEPT !.inst[i].thread = t,
                        !.thr[t] = [inst |-> i,
                                    pc |-> IF k \in {"sounddevice", "keyboard"}
                                           THEN "head" ELSE "init",
                                    cb |-> IF k = "windows_speech" THEN c ELSE 0,
                                    energy |-> 0, stage |-> "none",
                                    tmp |-> NoTmp]]

\* <Backend>.start_listening(callback) on instance i. fault: Thread.start()
\* raises; browserFail: webbrowser.open raises (web_api only).
Backend_start_listening(o, i, c, fault, browserFail) ==
    LET k == o.inst[i].kind
        t == FreeThr(o.thr)
        \* the fields set before the thread is made
        o1 == [o EXCEPT !.inst[i].isListening = TRUE,
                        !.inst[i].stopRequested =
                            IF k = "web_api" THEN @ ELSE FALSE,
                        !.inst[i].callback =
                            IF k = "windows_speech" THEN @ ELSE c]
    IN  IF k = "windows_speech" /\ platform # "win32"
        THEN [o EXCEPT !.exc = TRUE]                      \* raise OSError
        ELSE IF o.inst[i].isListening
        THEN o                                            \* already listening
        ELSE IF k = "web_api" /\ browserFail
        THEN [o EXCEPT !.inst[i].callback = c]            \* state back to False
        ELSE IF fault
        THEN [o1 EXCEPT !.inst[i].thread = DeadThread, !.exc = TRUE]
        ELSE IF t = 0
        THEN [o EXCEPT !.over = TRUE]
        ELSE [o1 EXCEPT !.inst[i].thread = t,
                        !.thr[t] = [inst |-> i,
                                    pc |-> IF k \in {"sounddevice", "keyboard"}
                                           THEN "head" ELSE "init",
                                    cb |-> IF k = "windows_speech" THEN c ELSE 0,
                                    energy |-> 0, stage |-> "none",
                                    tmp |-> NoTmp]]

\* <Backend>.stop_listening() on instance i, up to the join of the thread.
\* WebAPIRecognizer has no _stop_requested attribute: its first use raises
\* AttributeError before any field is changed.
Backend_stop_request(o, i) ==
    LET k == o.inst[i].kind IN
    IF k = "web_api"
    THEN [o EXCEPT !.exc = TRUE]
    ELSE [o EXCEPT !.inst[i].stopRequested = TRUE,
                   !.inst[i].isListening = FALSE,
                   !.inst[i].process = FALSE]     \* terminate / kill; None

\* Whether stop_listening waits in join(timeout).
Backend_stop_joins(o, i) == ThreadAlive(o.thr, o.inst[i].thread)

\* stop_listening that keeps the reference to a thread that has not ended.
Backend_stop_finish_keeps_thread(o, i) ==
    IF ThreadAlive(o.thr, o.inst[i].thread) THEN o
    ELSE [o EXCEPT !.inst[i].thread = 0]

\* <Backend>.stop_listening() after the join: the thread reference is cleared,
\* whether or not the thread has ended.
Backend_stop_finish(o, i) == [o EXCEPT !.inst[i].thread = 0]

(***************************************************************************)
(* The orchestrator's methods on the record o.                             *)
(***************************************************************************)

\* current_recognizer.start_listening(callback), noted in the history.
CallStart(o, c, fault, browserFail) ==
    IF o.over \/ o.cur = 0 THEN o
    ELSE LET r == Backend_start_listening(o, o.cur, c, fault, browserFail)
         IN  [r EXCEPT !.g.starts =
                 Append(@, [name |-> o.inst[o.cur].kind, cb |-> c,
                            raised |-> r.exc,
                            noop |-> o.inst[o.cur].isListening /\ ~r.exc])]

\* _handle_recognizer_error without "self.failed_recognizers.add".
handle_recognizer_error_unmarked(o, attempt_restart_listening, callback, fault, browserFail) ==
    LET o1 == [o EXCEPT !.cur = 0, !.name = NoName]
        o2 == initialize_best_recognizer(o1)
    IN  IF o2.exc \/ o2.over
        THEN o2
        ELSE IF attempt_restart_listening /\ callback # 0
        THEN CallStart(o2, callback, fault, browserFail)
        ELSE o2

\* _handle_recognizer_error without the call of _initialize_best_recognizer.
handle_recognizer_error_no_reselect(o, attempt_restart_listening, callback, fault, browserFail) ==
    [o EXCEPT !.failed = IF o.name # NoName THEN @ \cup {o.name} ELSE @,
              !.cur = 0, !.name = NoName]

\* _handle_recognizer_error that, when the start of the replacement raises,
\* marks the replacement as well and runs the selection once more.
handle_recognizer_error_reselecting(o, attempt_restart_listening, callback, fault, browserFail) ==
    LET o1 == [o EXCEPT !.failed = IF o.name # NoName THEN @ \cup {o.name} ELSE @,
                        !.cur = 0, !.name = NoName]
        o2 == initialize_best_recognizer(o1)
        o3 == CallStart(o2, callback, fault, browserFail)
    IN  IF o2.exc \/ o2.over
        THEN o2
        ELSE IF attempt_restart_listening /\ callback # 0
        THEN IF o3.exc
             THEN initialize_best_recognizer(
                      [o3 EXCEPT !.failed = @ \cup {o3.name},
                                 !.cur = 0, !.name = NoName])
             ELSE o3
        ELSE o2

\* AdaptiveSpeechRecognizer._handle_recognizer_error.
handle_recognizer_error(o, attempt_restart_listening, callback, fault, browserFail) ==
    LET o1 == [o EXCEPT !.failed = IF o.name # NoName THEN @ \cup {o.name} ELSE @,
                        !.cur = 0, !.name = NoName]
        o2 == initialize_best_recognizer(o1)
    IN  IF o2.exc \/ o2.over
        THEN o2                      \* RuntimeError of the selection
        ELSE IF attempt_restart_listening /\ callback # 0
        THEN CallStart(o2, callback, fault, browserFail)  \* raises RuntimeError
        ELSE o2

\* AdaptiveSpeechRecognizer.start_listening(callback); the callback handed to
\* the backend is wrapped_callback, the closure over callback.
start_listening(o, callback, f1, b1, f2, b2) ==
    LET o1 == IF o.cur = 0 THEN initialize_best_recognizer(o) ELSE o
        o2 == CallStart(o1, callback, f1, b1)
    IN  IF o1.exc \/ o1.over THEN o1
        ELSE IF o2.exc
        THEN handle_recognizer_error([o2 EXCEPT !.exc = FALSE], TRUE, callback, f2, b2)
        ELSE o2

\* The state after the orchestrator code has run to o.
Commit(o, op) ==
    /\ ~o.over
    /\ current' = o.cur
    /\ recognizer_name' = o.name
    /\ failed_recognizers' = o.failed
    /\ thr' = o.thr
    /\ inst' = Collect(o.inst, o.thr, o.cur)
    /\ last' = [o.g EXCEPT !.op = op, !.exc = o.exc]

\* current_recognizer.stop_listening() up to its join, noted in the history.
CallStop(o) ==
    LET r == Backend_stop_request(o, o.cur)
    IN  [r EXCEPT !.g.stops =
            Append(@, [name |-> o.inst[o.cur].kind, raised |-> r.exc,
                       listening |-> o.inst[o.cur].isListening,
                       fresh |-> o.inst[o.cur] =
                                    NewInstance(o.inst[o.cur].kind)])]

\* switch_recognizer without "self.recognizer_name = ...get_name()".
switch_rest_stale_name(o, new_recognizer_type) ==
    LET r == create_recognizer(new_recognizer_type)
        freed == Collect(o.inst, o.thr, 0)
        i == FreeInst(freed)
        o1 == [o EXCEPT !.failed = @ \cup {new_recognizer_type}]
        o2 == initialize_best_recognizer(o1)
    IN  IF r = "instance"
        THEN IF i = 0
             THEN [o EXCEPT !.over = TRUE]
             ELSE [o EXCEPT !.cur = i,
                            !.inst = [freed EXCEPT
                                        ![i] = NewInstance(new_recognizer_type)],
                            !.failed = @ \ {o.name},
                            !.g.ret = TRUE]
        ELSE IF o.cur # 0
        THEN o1
        ELSE IF o2.exc
        THEN initialize_best_recognizer(o1)
        ELSE o2

\* AdaptiveSpeechRecognizer.switch_recognizer after the current recognizer
\* has been stopped: the try block and its handler.
switch_rest(o, new_recognizer_type) ==
    LET r == create_recognizer(new_recognizer_type)
        freed == Collect(o.inst, o.thr, 0)
        i == FreeInst(freed)
        o1 == [o EXCEPT !.failed = @ \cup {new_recognizer_type}]
        o2 == initialize_best_recognizer(o1)
    IN  IF r = "instance"
        THEN IF i = 0
             THEN [o EXCEPT !.over = TRUE]
             ELSE [o EXCEPT !.cur = i, !.name = get_name(new_recognizer_type),
                            !.inst = [freed EXCEPT
                                        ![i] = NewInstance(new_recognizer_type)],
                            !.failed = @ \ {get_name(new_recognizer_type)},
                            !.g.ret = TRUE]
        ELSE IF o.cur # 0
        THEN o1                                        \* return False
        ELSE IF o2.exc
        THEN initialize_best_recognizer(o1)  \* the handler selects again: raises
        ELSE o2                                        \* return False

\* The trial constructions of get_available_recognizers, from entry i of the
\* preference list on: the get_name() of every instance that was made.
RECURSIVE available_from(_)
available_from(i) ==
    IF i > Len(recognizer_preferences)
    THEN << >>
    ELSE (IF create_recognizer(recognizer_preferences[i]) = "instance"
          THEN << get_name(recognizer_preferences[i]) >>
          ELSE << >>) \o available_from(i + 1)

\* get_available_recognizers that marks the names whose trial construction
\* failed and does not put the saved set back.
get_available_recognizers_marking(o) ==
    [o EXCEPT !.failed = @ \cup {n \in Names : create_recognizer(n) = "none"},
              !.g.avail = available_from(1)]

\* AdaptiveSpeechRecognizer.get_available_recognizers: the failed set is
\* copied before the trial constructions and assigned back after them; the
\* trial instances are dropped.
get_available_recognizers(o) ==
    LET original_failed_set == o.failed
        available == available_from(1)
    IN  [o EXCEPT !.failed = original_failed_set, !.g.avail = available]

\* AdaptiveSpeechRecognizer.is_listening (the property).
is_listening ==
    IF current # 0 THEN inst[current].isListening ELSE FALSE

\* AdaptiveSpeechRecognizer.get_status: the entries that tell of the
\* orchestrator itself.
get_status ==
    [adaptive_recognizer_status |-> IF current # 0 THEN "active" ELSE "inactive",
     current_recognizer_name |-> IF current # 0 THEN recognizer_name ELSE NoName,
     is_listening |-> is_listening,
     failed_recognizers_session |-> failed_recognizers]

(***************************************************************************)
(* The state machine.                                                      *)
(***************************************************************************)
\* No orchestrator yet, no instance, no thread.
Blank ==
    /\ constructed = FALSE
    /\ current = 0
    /\ recognizer_name = NoName
    /\ failed_recognizers = {}
    /\ inst = [i \in InstIds |-> NoInst]
    /\ thr = [t \in ThrIds |-> NoThr]
    /\ workers = {}
    /\ utter = 0
    /\ delivered = << >>
    /\ finished = {}
    /\ call = NoCall
    /\ calls = 0
    /\ last = NoLast
    /\ race = NoRace

\* Any host, on which nobody speaks or types.
Init ==
    /\ Blank
    /\ constructible \in SUBSET Names
    /\ platform \in {"win32", "linux"}
    /\ speech = 0
    /\ faults = TRUE
    /\ budget = MaxCalls

\* A Windows host on which every backend can be constructed and no thread or
\* browser start fails, with a user who speaks
\* and types.
CaptureInit ==
    /\ Blank
    /\ constructible = Names
    /\ platform = "win32"
    /\ speech = MaxUtter
    /\ faults = FALSE
    /\ budget = MaxCaptureCalls

Idle == constructed /\ call.op = "none" /\ calls < budget

\* Thread.start() raises only on a host that is short of resources;
\* webbrowser.open is called only by a WebAPIRecognizer.
ThreadFaults == IF faults THEN BOOLEAN ELSE {FALSE}
BrowserFaults == IF faults /\ "web_api" \in constructible THEN BOOLEAN ELSE {FALSE}

\* AdaptiveSpeechRecognizer.__init__: when the selection raises, no object
\* comes to exist.
Construct ==
    /\ ~constructed
    /\ LET o == initialize_best_recognizer(Here)
       IN  IF o.exc
           THEN /\ last' = [o.g EXCEPT !.op = "init", !.exc = TRUE]
                /\ UNCHANGED << constructed, current, recognizer_name,
                                failed_recognizers, inst, thr >>
           ELSE /\ constructed' = TRUE
                /\ Commit(o, "init")
    /\ UNCHANGED << workers, utter, delivered, finished, call, calls,
                    constructible, platform, speech, faults, budget, race >>

\* A call of start_listening(callback) by the application.
StartListening(callback) ==
    /\ Idle
    /\ calls' = calls + 1
    /\ \E f1, f2 \in ThreadFaults, b \in BrowserFaults :
          Commit(start_listening([Here EXCEPT !.g.curBefore = recognizer_name],
                                 callback, f1, b, f2, b), "start")
    /\ UNCHANGED << constructed, workers, utter, delivered, finished, call,
                    constructible, platform, speech, faults, budget, race >>

\* A call of stop_listening() by the application, up to the backend's join.
StopListening ==
    /\ Idle
    /\ calls' = calls + 1
    /\ LET o0 == [Here EXCEPT !.g.curBefore = recognizer_name]
           o1 == CallStop(o0)
       IN  IF current = 0
           THEN Commit(o0, "stop") /\ call' = call
           ELSE IF o1.exc
           THEN /\ Commit(handle_recognizer_error([o1 EXCEPT !.exc = FALSE],
                                                  FALSE, 0, FALSE, FALSE), "stop")
                /\ call' = call
           ELSE IF Backend_stop_joins(o1, current)
           THEN /\ Commit(o1, "pending")
                /\ call' = [op |-> "stop", i |-> current,
                            t |-> inst[current].thread, arg |-> NoName]
           ELSE Commit(Backend_stop_finish(o1, current), "stop") /\ call' = call
    /\ UNCHANGED << constructed, workers, utter, delivered, finished,
                    constructible, platform, speech, faults, budget, race >>

\* A call of switch_recognizer(name) by the application, up to the join of
\* the stop of the current recognizer.
SwitchRecognizer(new_recognizer_type) ==
    /\ Idle
    /\ calls' = calls + 1
    /\ LET o0 == [Here EXCEPT !.g.curBefore = recognizer_name,
                               !.g.arg = new_recognizer_type]
           o1 == CallStop(o0)
       IN  IF current # 0 /\ inst[current].isListening
           THEN IF o1.exc
                THEN Commit(o1, "switch") /\ call' = call
                ELSE IF Backend_stop_joins(o1, current)
                THEN /\ Commit(o1, "pending")
                     /\ call' = [op |-> "switch", i |-> current,
                                 t |-> inst[current].thread,
                                 arg |-> new_recognizer_type]
                ELSE /\ Commit(switch_rest(Backend_stop_finish(o1, current),
                                           new_recognizer_type), "switch")
                     /\ call' = call
           ELSE Commit(switch_rest(o0, new_recognizer_type), "switch")
                /\ call' = call
    /\ UNCHANGED << constructed, workers, utter, delivered, finished,
                    constructible, platform, speech, faults, budget, race >>

\* A call of get_available_recognizers() by the application.
GetAvailableRecognizers ==
    /\ Idle
    /\ calls' = calls + 1
    /\ Commit(get_available_recognizers([Here EXCEPT !.g.curBefore = recognizer_name]),
              "available")
    /\ UNCHANGED << constructed, workers, utter, delivered, finished, call,
                    constructible, platform, speech, faults, budget, race >>

\* A join that waits until the thread has ended.
join_untimed(thrf, t) == ~ThreadAlive(thrf, t)

\* <thread>.join(timeout=...) of the backends' stop_listening: whether it can
\* return. The timeout expires whether or not the thread has ended.
join(thrf, t) == TRUE

\* join(timeout) returns, the thread ended or not, and the call goes on.
JoinReturn ==
    /\ call.op # "none"
    /\ join(thr, call.t)
    /\ LET o1 == Backend_stop_finish([Here EXCEPT !.g = last], call.i)
       IN  IF call.op = "stop"
           THEN Commit(o1, "stop")
           ELSE Commit(switch_rest(o1, call.arg), "switch")
    /\ call' = NoCall
    /\ UNCHANGED << calls, constructed, workers, utter, delivered, finished,
                    constructible, platform, speech, faults, budget, race >>

(***************************************************************************)
(* The capture threads, the monitor threads and the recognition workers.   *)
(***************************************************************************)
\* last tells of the call that has just returned: any other step clears it.
OrchUnchanged ==
    /\ last' = IF call.op = "none" THEN NoLast ELSE last
    /\ UNCHANGED << constructed, current, recognizer_name, failed_recognizers,
                    call, calls, constructible, platform, speech, faults, budget, race >>

\* The user's callback handed to the backend as it is, without the wrapper.
wrapped_callback_uncaught(raises) == raises

\* wrapped_callback of AdaptiveSpeechRecognizer.start_listening: whether an
\* exception of the user's callback leaves the wrapper (except Exception
\* catches it).
wrapped_callback(raises) == FALSE

\* Lines and texts are sequences of characters.
Whitespace == {" ", "\t"}

\* str.strip().
RECURSIVE lstrip(_)
lstrip(text) ==
    IF text # << >> /\ Head(text) \in Whitespace THEN lstrip(Tail(text)) ELSE text

RECURSIVE rstrip(_)
rstrip(text) ==
    IF text # << >> /\ text[Len(text)] \in Whitespace
    THEN rstrip(SubSeq(text, 1, Len(text) - 1))
    ELSE text

strip(text) == rstrip(lstrip(text))

\* The lines a user types: an empty one, a blank one, a word, a word after
\* a blank.
KeyboardLines == {<< >>, << " " >>, << "h" >>, << " ", "h" >>}

\* The text the recognition service or the OS bridge returns for speech.
Transcript == << "h" >>

\* The user's callback is called with text, for utterance u that was heard
\* (typed or spoken) as heard.
Deliver(c, u, raises, by, heard, text) ==
    delivered' = Append(delivered,
                        [utt |-> u, cb |-> c, raised |-> raises, by |-> by,
                         heard |-> heard, text |-> text])

\* The end of a thread's target: the finally blocks (the listening state is
\* set false, the OS bridge's process is terminated and cleared).
ThreadEnd(instf, t) ==
    LET i == thr[t].inst
        thr1 == [thr EXCEPT ![t] = NoThr]
        inst1 == [instf EXCEPT ![i].isListening = FALSE,
                               ![i].process = FALSE,
                               ![i].thread = IF @ = t THEN DeadThread ELSE @]
    IN  /\ thr' = thr1
        /\ inst' = Collect(inst1, thr1, current)

KindOf(t) == inst[thr[t].inst].kind

\* The first statements of a thread: PyAudioRecognizer._listen_loop opens the
\* microphone, WindowsSpeechRecognizer._run_powershell_recognition_loop
\* spawns the process, WebAPIRecognizer._monitor_web_results_loop uses the
\* missing _stop_requested (or finds the state false) and ends.
ThreadInit(t) ==
    /\ thr[t].pc = "init"
    /\ \E ok \in BOOLEAN :
          CASE KindOf(t) = "pyaudio" ->
                  IF ok THEN /\ thr' = [thr EXCEPT ![t].pc = "head"]
                             /\ inst' = inst
                        ELSE ThreadEnd(inst, t)
            [] KindOf(t) = "windows_speech" ->
                  IF ok THEN /\ thr' = [thr EXCEPT ![t].pc = "blocked"]
                             /\ inst' = [inst EXCEPT ![thr[t].inst].process = TRUE]
                        ELSE ThreadEnd(inst, t)
            [] OTHER -> ThreadEnd(inst, t)
    /\ UNCHANGED << workers, utter, delivered, finished >>
    /\ OrchUnchanged

\* while not self._stop_requested.is_set(): if not self._is_listening_state: break
LoopHead(t) ==
    /\ thr[t].pc = "head"
    /\ LET i == thr[t].inst
       IN  IF inst[i].stopRequested \/ ~inst[i].isListening
           THEN ThreadEnd(inst, t)
           ELSE /\ thr' = [thr EXCEPT ![t].pc = "blocked", ![t].energy = 0,
                                       ![t].stage = "none", ![t].tmp = NoTmp]
                /\ inst' = inst
    /\ UNCHANGED << workers, utter, delivered, finished >>
    /\ OrchUnchanged

\* The recognition run on the calling thread: the caller gets to it only
\* when the remote call before it has returned.
recognize_audio_with_google_inline(u, c) ==
    /\ workers = {}
    /\ workers' = workers \cup {[utt |-> u, cb |-> c]}

\* BaseAudioRecognizer._recognize_audio_with_google: a worker thread is
\* started for the audio of utterance u; the caller goes on at once.
recognize_audio_with_google(u, c) ==
    workers' = workers \cup {[utt |-> u, cb |-> c]}

\* PyAudioRecognizer._listen_loop: recognizer.listen returns audio, or raises
\* WaitTimeoutError or another exception (logged; the loop continues).
PyAudioListen(t) ==
    /\ thr[t].pc = "blocked" /\ KindOf(t) = "pyaudio"
    /\ \/ /\ utter < speech
          /\ utter' = utter + 1
          /\ recognize_audio_with_google(utter + 1, inst[thr[t].inst].callback)
       \/ UNCHANGED << utter, workers >>
    /\ thr' = [thr EXCEPT ![t].pc = "head"]
    /\ UNCHANGED << inst, delivered, finished >>
    /\ OrchUnchanged

\* silence_threshold of SoundDeviceRecognizer._listen_loop.
silence_threshold == 10000

\* The energies of the blocks that are recorded: an all-zero block, blocks
\* just below and at the threshold.
Energies == {0, silence_threshold - 1, silence_threshold}

\* The silence test that treats only an all-zero block as silence.
BelowSilenceThreshold_zero_only(energy) == energy = 0

\* if energy < silence_threshold
BelowSilenceThreshold(energy) == energy < silence_threshold

\* Where the handling of a block with speech raises: nowhere, in
\* NamedTemporaryFile, in sf.write, or in sr.AudioFile / recognizer.record.
BlockFaults == {"none", "create", "write", "load"}

\* The handling of a block without its finally clause: the file is unlinked
\* after the recognition was started.
process_block_no_finally(fault) ==
    LET created == IF fault # "create" THEN 1 ELSE 0
        written == IF fault \notin {"create", "write"} THEN 1 ELSE 0
        reloaded == IF fault = "none" THEN 1 ELSE 0
    IN  [created |-> created, written |-> written, reloaded |-> reloaded,
         recognized |-> reloaded, unlinked |-> reloaded]

\* SoundDeviceRecognizer._listen_loop, from NamedTemporaryFile to the finally
\* clause of the iteration: how often the temporary file was created,
\* written, reloaded, handed to _recognize_audio_with_google and unlinked.
\* finally: if temp_audio_path and os.path.exists(temp_audio_path): os.unlink
process_block(fault) ==
    LET created == IF fault # "create" THEN 1 ELSE 0
        written == IF fault \notin {"create", "write"} THEN 1 ELSE 0
        reloaded == IF fault = "none" THEN 1 ELSE 0
    IN  [created |-> created, written |-> written, reloaded |-> reloaded,
         recognized |-> reloaded, unlinked |-> created]

\* A handler for sd.PortAudioError that only logs, like the handler for any
\* other exception: the loop goes on with the next block.
on_portaudio_error_retry(r) == [inst |-> r, break |-> FALSE]

\* except sd.PortAudioError as pae: self._is_listening_state = False;
\* self._stop_requested.set(); break. r is the instance; break tells whether
\* the loop is left.
on_portaudio_error(r) ==
    [inst |-> [r EXCEPT !.isListening = FALSE, !.stopRequested = TRUE],
     break |-> TRUE]

\* SoundDeviceRecognizer._listen_loop: one block is recorded; stage tells
\* what the iteration did with it (silent: skipped; written: the temporary
\* wav file was written and the audio handed to the recognition; error: an
\* exception ended the handling of the block).
SoundDeviceRecord(t) ==
    /\ thr[t].pc = "blocked" /\ KindOf(t) = "sounddevice"
    /\ LET i == thr[t].inst IN
       \/ \* sd.PortAudioError: the state is set false, the stop is requested
          /\ LET h == on_portaudio_error(inst[i])
             IN  IF h.break
                 THEN ThreadEnd([inst EXCEPT ![i] = h.inst], t)
                 ELSE /\ thr' = [thr EXCEPT ![t].pc = "head",
                                             ![t].stage = "device_error"]
                      /\ inst' = [inst EXCEPT ![i] = h.inst]
          /\ UNCHANGED << utter, workers >>
       \/ \* the stop was requested while recording: break
          /\ inst[i].stopRequested
          /\ ThreadEnd(inst, t)
          /\ UNCHANGED << utter, workers >>
       \/ \* another exception: logged, the loop goes on
          /\ ~inst[i].stopRequested
          /\ thr' = [thr EXCEPT ![t].pc = "head"]
          /\ UNCHANGED << inst, utter, workers >>
       \/ \* if energy < silence_threshold: continue
          /\ ~inst[i].stopRequested
          /\ \E energy \in Energies :
                /\ BelowSilenceThreshold(energy)
                /\ thr' = [thr EXCEPT ![t].pc = "head", ![t].energy = energy,
                                       ![t].stage = "silent"]
          /\ UNCHANGED << inst, utter, workers >>
       \/ \* a block with speech: written, reloaded, recognized, unlinked
          /\ ~inst[i].stopRequested
          /\ utter < speech
          /\ utter' = utter + 1
          /\ \E energy \in Energies, fault \in BlockFaults :
                /\ ~BelowSilenceThreshold(energy)
                /\ IF process_block(fault).recognized = 1
                   THEN recognize_audio_with_google(utter + 1, inst[i].callback)
                   ELSE workers' = workers
                /\ thr' = [thr EXCEPT ![t].pc = "head", ![t].energy = energy,
                                       ![t].stage = IF fault = "none" THEN "written"
                                                    ELSE "error",
                                       ![t].tmp = process_block(fault)]
          /\ inst' = inst
    /\ UNCHANGED << delivered, finished >>
    /\ OrchUnchanged

\* KeyboardInputRecognizer._keyboard_input_loop: input() returns or raises.
KeyboardInput(t) ==
    /\ thr[t].pc = "blocked" /\ KindOf(t) = "keyboard"
    /\ LET i == thr[t].inst IN
       \/ \* EOFError, KeyboardInterrupt
          /\ ThreadEnd(inst, t)
          /\ UNCHANGED << utter, delivered >>
       \/ \* a line after the stop: break
          /\ inst[i].stopRequested \/ ~inst[i].isListening
          /\ ThreadEnd(inst, t)
          /\ UNCHANGED << utter, delivered >>
       \/ \* a line that strip() leaves empty
          /\ ~(inst[i].stopRequested \/ ~inst[i].isListening)
          /\ \E text \in KeyboardLines : strip(text) = << >>
          /\ thr' = [thr EXCEPT ![t].pc = "head"]
          /\ UNCHANGED << inst, utter, delivered >>
       \/ \* a line of text: self._callback(text.strip())
          /\ ~(inst[i].stopRequested \/ ~inst[i].isListening)
          /\ utter < speech
          /\ utter' = utter + 1
          /\ \E raises \in BOOLEAN, text \in KeyboardLines :
                /\ strip(text) # << >>
                /\ Deliver(inst[i].callback, utter + 1, raises, "keyboard",
                           text, strip(text))
                /\ IF wrapped_callback(raises)
                   THEN ThreadEnd(inst, t)        \* except Exception: break
                   ELSE thr' = [thr EXCEPT ![t].pc = "head"] /\ inst' = inst
    /\ UNCHANGED << workers, finished >>
    /\ OrchUnchanged

\* WindowsSpeechRecognizer._run_powershell_recognition_loop: readline returns.
WindowsLine(t) ==
    /\ thr[t].pc = "blocked" /\ KindOf(t) = "windows_speech"
    /\ LET i == thr[t].inst IN
       \/ \* end of the process's output
          /\ ThreadEnd(inst, t)
          /\ UNCHANGED << utter, delivered >>
       \/ \* a line after the stop: break; self._process is None (the stop has
          \* cleared it), so there is no process to wait for. A process that
          \* was spawned after the stop is waited for without a timeout: the
          \* thread ends only when that process ends (the branch above).
          /\ ~inst[i].isListening
          /\ ~inst[i].process
          /\ ThreadEnd(inst, t)
          /\ UNCHANGED << utter, delivered >>
       \/ \* a recognized phrase: callback(line_stripped)
          /\ inst[i].isListening
          /\ utter < speech
          /\ utter' = utter + 1
          /\ \E raises \in BOOLEAN :
                /\ Deliver(thr[t].cb, utter + 1, raises, "windows_speech",
                           Transcript, Transcript)
                /\ IF wrapped_callback(raises)
                   THEN ThreadEnd(inst, t)        \* except Exception
                   ELSE UNCHANGED << thr, inst >>
    /\ UNCHANGED << workers, finished >>
    /\ OrchUnchanged

\* recognition_thread_target of _recognize_audio_with_google: the remote
\* call returns text (possibly empty) or raises.
Outcomes == {"text", "empty", "UnknownValueError", "RequestError", "Exception"}

\* "if text is not None: callback(text)" in place of "if text:".
CallsBack_not_none(outcome) == outcome \in {"text", "empty"}

\* Whether the callback is called for an outcome: if text: callback(text).
CallsBack(outcome) == outcome = "text"

RecognitionFinish(w) ==
    /\ w \in workers
    /\ workers' = workers \ {w}
    /\ \E outcome \in Outcomes :
          /\ finished' = finished \cup {[utt |-> w.utt, outcome |-> outcome]}
          /\ IF CallsBack(outcome)
             THEN \E raises \in BOOLEAN :
                     Deliver(w.cb, w.utt, raises, "worker", Transcript, Transcript)
             ELSE delivered' = delivered
    /\ UNCHANGED << inst, thr, utter >>
    /\ OrchUnchanged

OrchNext ==
    \/ Construct
    \/ \E c \in Callbacks : StartListening(c)
    \/ StopListening
    \/ \E n \in SwitchNames : SwitchRecognizer(n)
    \/ GetAvailableRecognizers
    \/ JoinReturn
    \/ \E t \in ThrIds : ThreadInit(t)
    \/ \E t \in ThrIds : LoopHead(t)
    \/ \E t \in ThrIds : PyAudioListen(t)
    \/ \E t \in ThrIds : SoundDeviceRecord(t)
    \/ \E t \in ThrIds : KeyboardInput(t)
    \/ \E t \in ThrIds : WindowsLine(t)

Next == OrchNext

Spec == Init /\ [][Next]_vars

CaptureNext ==
    \/ OrchNext
    \/ \E w \in workers : RecognitionFinish(w)

CaptureSpec == CaptureInit /\ [][CaptureNext]_vars

\* The capture host with a user who says or types little.
JoinFairInit ==
    /\ Blank
    /\ constructible = Names
    /\ platform = "win32"
    /\ speech = MaxJoinUtter
    /\ faults = FALSE
    /\ budget = MaxCaptureCalls

\* That host with the one progress the code guarantees to a caller: a join
\* with a timeout returns. Capture threads and recognition workers may stay
\* where they are for ever (a blocked read, a remote call that never
\* returns).
JoinFairSpec == JoinFairInit /\ [][CaptureNext]_vars /\ WF_vars(JoinReturn)

\* A host on which every backend can be constructed at first.
UnstableInit ==
    /\ Blank
    /\ constructible = Names
    /\ platform = "win32"
    /\ speech = 0
    /\ faults = FALSE
    /\ budget = MaxCaptureCalls

\* The constructor of backend n raises from now on: _create_recognizer
\* catches every exception of a constructor ("Failed to initialize ...") and
\* returns None, at whatever time it is called.
ConstructorStartsFailing(n) ==
    /\ n \in constructible
    /\ constructible' = constructible \ {n}
    /\ last' = IF call.op = "none" THEN NoLast ELSE last
    /\ UNCHANGED << constructed, current, recognizer_name, failed_recognizers,
                    inst, thr, workers, utter, delivered, finished, call, calls,
                    platform, speech, faults, budget, race >>

UnstableNext ==
    \/ OrchNext
    \/ \E n \in Names : ConstructorStartsFailing(n)

\* The engine on a host where constructors that succeeded may fail later.
UnstableSpec == UnstableInit /\ [][UnstableNext]_vars

(***************************************************************************)
(* Two threads of the application inside one backend: MumbleQuick runs     *)
(* start_listening on a worker thread (recognition_thread) and             *)
(* stop_listening on the UI thread. Neither method takes a lock, so their  *)
(* statements interleave; race.start and race.stop name the statement each *)
(* thread executes next.                                                   *)
(***************************************************************************)
RaceKinds == {"pyaudio", "sounddevice"}

\* A constructed engine whose current backend (instance 1) is fresh, and the
\* two threads about to enter its start_listening and stop_listening.
RaceInit ==
    /\ constructed = TRUE
    /\ current = 1
    /\ recognizer_name \in RaceKinds
    /\ failed_recognizers = {}
    /\ inst = [i \in InstIds |->
                  IF i = 1 THEN NewInstance(recognizer_name) ELSE NoInst]
    /\ thr = [t \in ThrIds |-> NoThr]
    /\ workers = {}
    /\ utter = 0
    /\ delivered = << >>
    /\ finished = {}
    /\ call = NoCall
    /\ calls = 0
    /\ last = NoLast
    /\ constructible = Names
    /\ platform = "win32"
    /\ speech = 0
    /\ faults = FALSE
    /\ budget = 0
    /\ race = [start |-> "guard", stop |-> "set_stop"]

RaceUnchanged ==
    UNCHANGED << constructed, current, recognizer_name, failed_recognizers,
                 workers, utter, delivered, finished, call, calls, last,
                 constructible, platform, speech, faults, budget >>

\* PyAudioRecognizer.start_listening / SoundDeviceRecognizer.start_listening
\* on the current instance, one statement per step. The Thread object that
\* was made and not yet started is a reference to a thread that is not alive.
RaceStart(callback) ==
    /\ LET i == current
           t == FreeThr(thr)
       IN  CASE race.start = "guard" ->        \* if self._is_listening_state: return
                  /\ race' = [race EXCEPT !.start = IF inst[i].isListening
                                                    THEN "done" ELSE "set_state"]
                  /\ UNCHANGED << inst, thr >>
             [] race.start = "set_state" ->    \* self._is_listening_state = True
                  /\ inst' = [inst EXCEPT ![i].isListening = TRUE]
                  /\ race' = [race EXCEPT !.start = "clear_stop"]
                  /\ thr' = thr
             [] race.start = "clear_stop" ->   \* self._stop_requested.clear()
                  /\ inst' = [inst EXCEPT ![i].stopRequested = FALSE]
                  /\ race' = [race EXCEPT !.start = "set_callback"]
                  /\ thr' = thr
             [] race.start = "set_callback" -> \* self._callback = callback
                  /\ inst' = [inst EXCEPT ![i].callback = callback]
                  /\ race' = [race EXCEPT !.start = "make_thread"]
                  /\ thr' = thr
             [] race.start = "make_thread" ->  \* self._listen_thread = Thread(...)
                  /\ inst' = [inst EXCEPT ![i].thread = DeadThread]
                  /\ race' = [race EXCEPT !.start = "start_thread"]
                  /\ thr' = thr
             [] race.start = "start_thread" -> \* self._listen_thread.start()
                  IF inst[i].thread = 0
                  THEN \* AttributeError: 'NoneType' object has no attribute 'start'
                       /\ race' = [race EXCEPT !.start = "raised"]
                       /\ UNCHANGED << inst, thr >>
                  ELSE /\ t # 0
                       /\ inst' = [inst EXCEPT ![i].thread = t]
                       /\ thr' = [thr EXCEPT ![t] =
                                     [inst |-> i,
                                      pc |-> IF inst[i].kind = "sounddevice"
                                             THEN "head" ELSE "init",
                                      cb |-> 0, energy |-> 0, stage |-> "none",
                                      tmp |-> NoTmp]]
                       /\ race' = [race EXCEPT !.start = "done"]
             [] OTHER -> FALSE
    /\ RaceUnchanged

\* PyAudioRecognizer.stop_listening / SoundDeviceRecognizer.stop_listening on
\* the current instance, one statement per step.
RaceStop ==
    /\ LET i == current
       IN  CASE race.stop = "set_stop" ->      \* self._stop_requested.set()
                  /\ inst' = [inst EXCEPT ![i].stopRequested = TRUE]
                  /\ race' = [race EXCEPT !.stop = "clear_state"]
             [] race.stop = "clear_state" ->   \* self._is_listening_state = False
                  /\ inst' = [inst EXCEPT ![i].isListening = FALSE]
                  /\ race' = [race EXCEPT !.stop = "test_thread"]
             [] race.stop = "test_thread" ->   \* if self._listen_thread and ...is_alive()
                  /\ race' = [race EXCEPT !.stop =
                                  IF ThreadAlive(thr, inst[i].thread)
                                  THEN "join" ELSE "clear_thread"]
                  /\ inst' = inst
             [] race.stop = "join" ->          \* self._listen_thread.join(timeout=2.0)
                  /\ join(thr, inst[i].thread)
                  /\ race' = [race EXCEPT !.stop = "clear_thread"]
                  /\ inst' = inst
             [] race.stop = "clear_thread" ->  \* self._listen_thread = None
                  /\ inst' = [inst EXCEPT ![i].thread = 0]
                  /\ race' = [race EXCEPT !.stop = "done"]
             [] OTHER -> FALSE
    /\ thr' = thr
    /\ RaceUnchanged

RaceNext ==
    \/ \E c \in Callbacks : RaceStart(c)
    \/ RaceStop
    \/ \E t \in ThrIds : ThreadInit(t)
    \/ \E t \in ThrIds : LoopHead(t)
    \/ \E t \in ThrIds : PyAudioListen(t)
    \/ \E t \in ThrIds : SoundDeviceRecord(t)

RaceSpec == RaceInit /\ [][RaceNext]_vars

(***************************************************************************)
(* Properties.                                                             *)
(***************************************************************************)
\* The first entry of the preference order that is not in failed and whose
\* construction succeeds; NoName when there is none.
FirstViable(failed) ==
    LET S == {i \in 1 .. Len(recognizer_preferences) :
                 /\ recognizer_preferences[i] \notin failed
                 /\ recognizer_preferences[i] \in constructible}
    IN  IF S = {} THEN NoName ELSE recognizer_preferences[Min(S)]

\* The capture threads that are in their loop.
Looping == {t \in ThrIds : thr[t].pc \in {"head", "blocked"}}

\* How often the user's callback was called by a recognition worker for
\* utterance u.
WorkerCalls(d, u) ==
    Cardinality({k \in 1 .. Len(d) : d[k].utt = u /\ d[k].by = "worker"})

\* C1: a selection that adopts a backend adopts the first name of the
\* preference order that is not in failed_recognizers and whose construction
\* succeeds: "pyaudio" when every backend is constructible and none failed,
\* the second entry when the first is marked failed and the second is viable,
\* "keyboard" when only the keyboard backend is constructible.
C1_SelectionAdoptsFirstViable ==
    (last.selRan /\ ~last.selRaised) =>
        /\ FirstViable(last.selFailedBefore) # NoName
        /\ recognizer_name = FirstViable(last.selFailedBefore)
        /\ current # 0
        /\ inst[current].kind = recognizer_name
        /\ (constructible = Names /\ last.selFailedBefore = {}
                => recognizer_name = "pyaudio")
        /\ (("pyaudio" \in last.selFailedBefore
                /\ "sounddevice" \in constructible \ last.selFailedBefore)
                => recognizer_name = "sounddevice")
        /\ (constructible = {"keyboard"} /\ "keyboard" \notin last.selFailedBefore
                => recognizer_name = "keyboard")

\* C1: a selection has passed over a failed name and over a name whose
\* construction failed, and has adopted a later one.
C1_Witness ==
    /\ last.selRan /\ ~last.selRaised
    /\ last.selFailedBefore \cap constructible # {}
    /\ last.selCtorFailed # {}
    /\ recognizer_name = last.selAdopted
    /\ recognizer_name \notin {NoName, "pyaudio"}

\* C2: when the start of the active backend raised inside start_listening
\* and start_listening returned, the failed backend's name is in
\* failed_recognizers, the current recognizer is the first backend of the
\* preference order that is not failed and constructs, and the start of that
\* replacement was called exactly once, with the same callback.
C2_FallbackOnStartFailure ==
    (/\ last.op = "start" /\ ~last.exc
     /\ Len(last.starts) >= 1 /\ last.starts[1].raised) =>
        /\ last.starts[1].name \in failed_recognizers
        /\ Len(last.starts) = 2
        /\ ~last.starts[2].raised
        /\ last.starts[2].cb = last.starts[1].cb
        /\ last.starts[2].name = recognizer_name
        /\ recognizer_name = FirstViable(failed_recognizers)
        /\ recognizer_name # last.starts[1].name
        /\ current # 0
        /\ inst[current].kind = recognizer_name

\* C2: start_listening has returned after the first backend's start raised
\* and the replacement's start did not.
C2_Witness ==
    /\ last.op = "start" /\ ~last.exc
    /\ Len(last.starts) = 2
    /\ last.starts[1].raised
    /\ current # 0 /\ inst[current].isListening

\* C3: every backend whose construction failed during a selection is in
\* failed_recognizers afterwards.
C3_ConstructionFailureMarked ==
    last.selRan => last.selCtorFailed \subseteq failed_recognizers

\* C4: when every name of the preference order is in failed_recognizers or
\* fails construction, the selection raises to its caller and nothing is
\* adopted: current_recognizer stays None.
C4_SelectionExhaustedRaises ==
    (last.selRan /\ FirstViable(last.selFailedBefore) = NoName) =>
        /\ last.exc
        /\ current = 0
        /\ recognizer_name = NoName

\* C4: on an orchestrator that exists, a selection found every name failed
\* or not constructible, at least one of them failed, and raised.
C4_Witness ==
    /\ constructed
    /\ last.selRan /\ last.exc
    /\ last.selFailedBefore # {}
    /\ FirstViable(last.selFailedBefore) = NoName
    /\ current = 0

\* C5: start_listening raises to its caller only when every name of the
\* preference order is failed or not constructible.
C5_StartRaisesOnlyWhenExhausted ==
    (last.op = "start" /\ last.exc) =>
        \A n \in Names : n \in failed_recognizers \/ n \notin constructible

\* C6: start_listening(callback) while the backend is listening does
\* nothing: no thread is created, the instance's thread reference, callback
\* and listening state are unchanged, and nothing is raised.
C6_StartWhileListeningIsNoOp ==
    [][(/\ calls' = calls + 1
        /\ last'.op = "start"
        /\ current # 0
        /\ inst[current].isListening) =>
            /\ inst' = inst
            /\ thr' = thr
            /\ current' = current
            /\ ~last'.exc]_vars

\* C6: start_listening was called with another callback on a backend that
\* was listening, and the backend still holds the callback it had.
C6_Witness ==
    /\ last.op = "start" /\ ~last.exc
    /\ Len(last.starts) = 1
    /\ last.starts[1].noop
    /\ current # 0
    /\ inst[current].isListening
    /\ inst[current].callback # 0
    /\ inst[current].callback # last.starts[1].cb
    /\ ThreadAlive(thr, inst[current].thread)

\* C7: stop_listening on a backend instance that was never started raises
\* nothing.
C7_StopNeverStartedDoesNotRaise ==
    (/\ last.op = "stop"
     /\ Len(last.stops) = 1
     /\ last.stops[1].fresh) => ~last.stops[1].raised

\* C8: a call of the user's callback that raises leaves every backend
\* instance as it was (the listening state stays true) and ends no thread:
\* the capture thread goes on to the next utterance.
C8_CallbackIsolation ==
    [][(/\ Len(delivered') = Len(delivered) + 1
        /\ delivered'[Len(delivered')].raised) =>
            /\ inst' = inst
            /\ \A t \in ThrIds : thr[t].pc # "free" => thr'[t].pc # "free"]_vars

\* C8: after a call of the callback that raised, the same backend has
\* delivered the next utterance and is still listening.
C8_Witness ==
    /\ Len(delivered) >= 2
    /\ delivered[1].raised
    /\ delivered[1].by = "keyboard"
    /\ delivered[2].by = "keyboard"
    /\ delivered[2].utt > delivered[1].utt
    /\ current # 0
    /\ inst[current].kind = "keyboard"
    /\ inst[current].isListening
    /\ ThreadAlive(thr, inst[current].thread)

\* C9: at most one capture loop is running at any time.
C9_AtMostOneCaptureLoop == Cardinality(Looping) <= 1

\* C10: a recognition worker calls the callback exactly once when the remote
\* call returned a non-empty text and not at all on an empty text,
\* UnknownValueError, RequestError or another exception; it changes no
\* backend instance and no capture thread.
C10_RecognizeAndDeliver ==
    [][finished' # finished =>
          /\ inst' = inst
          /\ thr' = thr
          /\ \A f \in finished' \ finished :
                WorkerCalls(delivered', f.utt) =
                    IF f.outcome = "text" THEN 1 ELSE 0]_vars

\* C10: one recognition returned a text and another one failed with
\* RequestError, and a capture loop is still running.
C10_Witness ==
    /\ \E f, h \in finished : f.outcome = "text" /\ h.outcome = "RequestError"
    /\ Len(delivered) = 1
    /\ Looping # {}
    /\ current # 0 /\ inst[current].isListening

\* C11: stop_listening never raises to its caller.
C11_StopNeverRaises == last.op = "stop" => ~last.exc

\* C14: a name in failed_recognizers leaves the set, or becomes the current
\* recognizer, only by a successful switch_recognizer to that name; a
\* selection adopts no name that is in failed_recognizers.
C14_FailedNeverRetried ==
    [][/\ \A n \in failed_recognizers :
             (n \notin failed_recognizers' \/ (recognizer_name' = n /\ recognizer_name # n))
                 => /\ last'.op = "switch" /\ last'.ret
                    /\ last'.arg = n
                    /\ recognizer_name' = n
                    /\ n \notin failed_recognizers'
       /\ (last'.selRan /\ ~last'.selRaised)
             => /\ last'.selAdopted \notin last'.selFailedBefore
                /\ recognizer_name' = last'.selAdopted
                /\ recognizer_name' \notin failed_recognizers']_vars

\* C14: a fallback inside start_listening has passed over the first entry of
\* the preference order, which is failed although it could be constructed.
C14_Witness ==
    /\ last.op = "start"
    /\ last.selRan /\ ~last.selRaised
    /\ recognizer_preferences[1] \in failed_recognizers \cap constructible
    /\ recognizer_name \notin failed_recognizers \cup {NoName}

\* C15: switch_recognizer(name) with a constructible name returns True, the
\* new instance is the current recognizer under that name, the name is not
\* in failed_recognizers, and a stop of the previous backend did not raise.
C15_SwitchSucceeds ==
    (last.op = "switch" /\ last.arg \in constructible) =>
        /\ last.ret /\ ~last.exc
        /\ recognizer_name = last.arg
        /\ current # 0
        /\ inst[current] = NewInstance(last.arg)
        /\ last.arg \notin failed_recognizers

\* C16: switch_recognizer(name) with a name whose construction fails returns
\* False, the name is in failed_recognizers, and a current recognizer that
\* existed is still the current recognizer; a selection ran only when there
\* was none.
C16_SwitchFails ==
    (last.op = "switch" /\ last.arg \notin constructible) =>
        /\ ~last.ret /\ ~last.exc
        /\ last.arg \in failed_recognizers
        /\ (last.curBefore # NoName =>
               /\ recognizer_name = last.curBefore
               /\ current # 0
               /\ ~last.selRan)
        /\ (last.curBefore = NoName => last.selRan)

\* C17: get_available_recognizers leaves failed_recognizers, the current
\* recognizer, its name and every backend's state as they were, and reports
\* the names that can be constructed, in the order of preference.
C17_AvailableIsSideEffectFree ==
    [][last'.op = "available" =>
          /\ failed_recognizers' = failed_recognizers
          /\ current' = current
          /\ recognizer_name' = recognizer_name
          /\ inst' = inst
          /\ thr' = thr
          /\ ~last'.exc
          /\ \A n \in Names :
                (\E k \in 1 .. Len(last'.avail) : last'.avail[k] = n)
                    <=> n \in constructible]_vars

\* C17: get_available_recognizers has returned while a backend is listening,
\* a name is marked failed and some trial construction failed.
C17_Witness ==
    /\ last.op = "available"
    /\ Len(last.avail) < Len(recognizer_preferences)
    /\ failed_recognizers # {}
    /\ current # 0
    /\ inst[current].isListening

\* C18: whenever there is a current recognizer, recognizer_name is its
\* get_name() and get_status reports that name.
C18_NameMatchesInstance ==
    current # 0 =>
        /\ recognizer_name = get_name(inst[current].kind)
        /\ get_status.current_recognizer_name = get_name(inst[current].kind)
        /\ get_status.adaptive_recognizer_status = "active"

\* C18: a switch has replaced the current recognizer by one of another name.
C18_Witness ==
    /\ last.op = "switch" /\ last.ret
    /\ last.curBefore \notin {NoName, recognizer_name}
    /\ current # 0
    /\ get_status.current_recognizer_name = "keyboard"

\* C19 as stated: once the orchestrator exists, there is a current recognizer
\* whenever no call is in progress.
C19_CurrentNeverNullAtRest ==
    (constructed /\ call.op = "none") => current # 0

\* C19 as amended: the current recognizer of an orchestrator that exists
\* becomes None only in a call whose selection found no backend and raised;
\* while a call waits in a join there is a current recognizer.
C19_NullOnlyAfterExhaustion ==
    [][/\ (constructed /\ current # 0 /\ current' = 0)
             => (last'.selRan /\ last'.selRaised /\ last'.exc
                 /\ recognizer_name' = NoName)
       /\ (call'.op # "none" => current' # 0)]_vars

\* C19: a start_listening has raised and left no current recognizer.
C19_Witness ==
    /\ constructed /\ call.op = "none"
    /\ current = 0
    /\ last.op = "start" /\ last.exc /\ last.selRaised

\* C20: after stop_listening on a listening pyaudio or sounddevice backend
\* the stop signal is set, the listening state is false, the thread
\* reference is cleared and nothing was raised, whether or not the capture
\* thread has ended; the join that the stop waits in can always return.
C20_StopJoinsBounded ==
    /\ (/\ last.op = "stop"
        /\ Len(last.stops) = 1
        /\ last.stops[1].listening
        /\ last.stops[1].name \in {"pyaudio", "sounddevice"}) =>
            /\ ~last.exc /\ ~last.stops[1].raised
            /\ current # 0
            /\ inst[current].kind = last.stops[1].name
            /\ inst[current].stopRequested
            /\ ~inst[current].isListening
            /\ inst[current].thread = 0
    /\ (call.op = "stop" => ENABLED JoinReturn)

\* C20: the stop has returned and the capture thread of the stopped backend
\* is still alive.
C20_Witness ==
    /\ last.op = "stop" /\ ~last.exc
    /\ Len(last.stops) = 1
    /\ last.stops[1].listening
    /\ last.stops[1].name \in {"pyaudio", "sounddevice"}
    /\ current # 0
    /\ inst[current].thread = 0
    /\ \E t \in ThrIds : thr[t].pc # "free" /\ thr[t].inst = current

\* C12: when the keyboard backend is the current recognizer, get_status
\* reports 'keyboard' and every call of the callback by the keyboard backend
\* passes the line as it was typed.
C12_KeyboardVerbatim ==
    (current # 0 /\ recognizer_name = "keyboard") =>
        /\ get_status.current_recognizer_name = "keyboard"
        /\ \A k \in 1 .. Len(delivered) :
              delivered[k].by = "keyboard" =>
                  delivered[k].text = delivered[k].heard

C21_CallsReturn ==
    /\ [][/\ (calls' = calls + 1 /\ last'.op = "start") => call'.op = "none"
          /\ (call.op = "none" /\ call'.op # "none")
                => /\ call'.op \in {"stop", "switch"}
                   /\ ThreadAlive(thr', call'.t)]_vars
    /\ (call.op # "none") ~> (call.op = "none")

\* C21: a stop has returned while the capture thread it joined is still
\* blocked in its capture call and a remote recognition is still pending.
C21_Witness ==
    /\ last.op = "stop" /\ ~last.exc
    /\ workers # {}
    /\ current # 0
    /\ \E t \in ThrIds : thr[t].pc = "blocked" /\ thr[t].inst = current

\* C22: while a single session on a single backend instance is all there has
\* been (at most one call was made), the recognition workers call the
\* callback in the order in which their utterances were captured.
C22_DeliveredInCaptureOrder ==
    calls <= 1 =>
        \A j, k \in 1 .. Len(delivered) :
            (j < k /\ delivered[j].by = "worker" /\ delivered[k].by = "worker")
                => delivered[j].utt < delivered[k].utt

\* C23: while a remote recognition is pending, a pyaudio or sounddevice
\* capture thread is not held up: at the head of its loop it can go on
\* (and ends when the stop was requested), and in its capture call it can
\* capture the next utterance and hand it to a further worker.
C23_CaptureNotBlockedByRecognition ==
    workers # {} =>
        \A t \in ThrIds :
            /\ thr[t].pc = "head" => ENABLED LoopHead(t)
            /\ (thr[t].pc = "head" /\ inst[thr[t].inst].stopRequested)
                  => ENABLED (LoopHead(t) /\ thr'[t].pc = "free")
            /\ (thr[t].pc = "blocked" /\ KindOf(t) = "pyaudio" /\ utter < speech)
                  => ENABLED (PyAudioListen(t) /\ utter' = utter + 1
                                /\ Cardinality(workers') = Cardinality(workers) + 1)
            /\ (/\ thr[t].pc = "blocked" /\ KindOf(t) = "sounddevice"
                /\ utter < speech /\ ~inst[thr[t].inst].stopRequested)
                  => ENABLED (SoundDeviceRecord(t) /\ utter' = utter + 1
                                /\ Cardinality(workers') = Cardinality(workers) + 1)

\* C23: two remote recognitions are pending at once (the second utterance
\* was captured and dispatched while the first call had not returned) and
\* the capture loop is still running.
C23_Witness ==
    /\ Cardinality(workers) = 2
    /\ finished = {}
    /\ \E t \in Looping : thr[t].inst = current /\ inst[current].isListening

\* Instance i is a sounddevice backend whose capture thread has ended after
\* the stop signal was set by the capture thread itself, in the handler of
\* sd.PortAudioError: no call is in progress, and a stop_listening that sets
\* the signal clears the thread reference before it returns.
HardFailed(i) ==
    /\ call.op = "none"
    /\ inst[i].kind = "sounddevice"
    /\ inst[i].thread = DeadThread
    /\ inst[i].stopRequested

\* Nothing of the engine is left to run: no call in progress, no capture or
\* monitor thread, no recognition worker.
Quiescent ==
    /\ call.op = "none"
    /\ \A t \in ThrIds : thr[t].pc = "free"
    /\ workers = {}

\* C24: when the capture thread of the active backend has ended in a hard
\* failure and nothing is left to run, the backend is not listening, it is
\* in failed_recognizers and it is no longer the current recognizer.
C24_HardFailureEscalates ==
    \A i \in InstIds :
        (Quiescent /\ HardFailed(i)) =>
            /\ ~inst[i].isListening
            /\ "sounddevice" \in failed_recognizers
            /\ current # i

\* C25: on a host that is not Windows no selection adopts 'windows_speech'.
C25_NotAdoptedOffWindows ==
    (platform # "win32" /\ last.selRan) => last.selAdopted # "windows_speech"

\* C26: from the return of stop_listening on a windows_speech backend until
\* its next start, no dictation process of the backend is running and no
\* monitor thread of the backend is alive.
C26_StopLeavesNothingRunning ==
    \A i \in InstIds :
        (/\ call.op = "none"
         /\ inst[i].kind = "windows_speech"
         /\ inst[i].stopRequested
         /\ inst[i].thread = 0) =>
            /\ ~inst[i].process
            /\ \A t \in ThrIds : thr[t].pc # "free" => thr[t].inst # i

\* C27: while the web_api backend is the current recognizer, listening, with
\* its monitor thread alive, a step that is no call of the application and
\* no return of a join leaves it listening with that thread alive.
C27_BrowserBridgeStaysListening ==
    [][(/\ current # 0
        /\ inst[current].kind = "web_api"
        /\ inst[current].isListening
        /\ ThreadAlive(thr, inst[current].thread)
        /\ calls' = calls
        /\ call.op = "none") =>
            /\ inst'[current].isListening
            /\ ThreadAlive(thr', inst'[current].thread)]_vars

C29_OneCaptureThreadPerInstance ==
    \A i \in InstIds :
        Cardinality({t \in Looping : thr[t].inst = i}) <= 1

\* C30: when a thread ends that is not the thread of its instance's present
\* session (the instance is listening with another, live thread), the
\* instance stays listening.
C30_EarlierThreadExitLeavesSession ==
    [][\A t \in ThrIds :
          (/\ thr[t].pc # "free"
           /\ thr'[t].pc = "free"
           /\ inst[thr[t].inst].isListening
           /\ inst[thr[t].inst].thread # t
           /\ ThreadAlive(thr, inst[thr[t].inst].thread)) =>
              inst'[thr[t].inst].isListening]_vars

\* C32: when the start of the replacement backend raised inside
\* start_listening, start_listening raised to its caller, exactly two starts
\* were made, and the selection that adopted the replacement was the last
\* one: the replacement is still the current recognizer and no entry after
\* it was tried.
C32_SecondFailureRaisesAtOnce ==
    (/\ last.op = "start"
     /\ Len(last.starts) >= 2
     /\ last.starts[2].raised) =>
        /\ last.exc
        /\ Len(last.starts) = 2
        /\ last.starts[1].raised
        /\ last.selRan /\ ~last.selRaised
        /\ last.selAdopted = last.starts[2].name
        /\ last.starts[2].name \notin last.selFailedBefore
        /\ recognizer_name = last.starts[2].name
        /\ current # 0
        /\ inst[current].kind = last.starts[2].name

\* C32: start_listening has raised after the starts of the first backend and
\* of its replacement raised, although a later entry of the preference order
\* is constructible and not failed.
C32_Witness ==
    /\ last.op = "start" /\ last.exc
    /\ Len(last.starts) = 2
    /\ last.starts[1].raised /\ last.starts[2].raised
    /\ FirstViable(failed_recognizers \cup {recognizer_name}) # NoName

\* C33: when start_listening has raised, every backend whose start raised
\* in that call is in failed_recognizers and is not the current recognizer.
C33_RaisedStartMarksAll ==
    (last.op = "start" /\ last.exc) =>
        \A k \in 1 .. Len(last.starts) :
            last.starts[k].raised =>
                /\ last.starts[k].name \in failed_recognizers
                /\ recognizer_name # last.starts[k].name

\* C35: switch_recognizer never raises; it returns True exactly when the
\* named backend has become the current recognizer in that call.
C35_SwitchNeverRaises ==
    last.op = "switch" =>
        /\ ~last.exc
        /\ last.ret <=> (/\ current # 0
                         /\ recognizer_name = last.arg
                         /\ inst[current] = NewInstance(last.arg))

\* C36: a switch_recognizer that did not switch, called while the current
\* backend was listening, has stopped that backend without an exception,
\* started nothing, and leaves it the current recognizer, not listening.
C36_FailedSwitchLeavesNotListening ==
    (/\ last.op = "switch"
     /\ ~last.ret
     /\ Len(last.stops) = 1
     /\ last.stops[1].listening) =>
        /\ ~last.stops[1].raised
        /\ last.starts = << >>
        /\ current # 0
        /\ recognizer_name = last.curBefore
        /\ ~is_listening

\* C37: a sounddevice capture thread never goes on with its loop after a
\* PortAudioError; the step in which a recording thread ends although no
\* stop was requested (the PortAudioError) records and recognizes no block,
\* and leaves its instance with the stop signal set and not listening.
C37_PortAudioErrorEndsLoop ==
    /\ [](\A t \in ThrIds : thr[t].stage # "device_error")
    /\ [][\A t \in ThrIds :
            (/\ thr[t].pc = "blocked"
             /\ KindOf(t) = "sounddevice"
             /\ ~inst[thr[t].inst].stopRequested
             /\ thr'[t].pc = "free") =>
                /\ utter' = utter
                /\ workers' = workers
                /\ delivered' = delivered
                /\ LET i == thr[t].inst
                   IN  inst'[i].kind # NoName =>
                          /\ inst'[i].stopRequested
                          /\ ~inst'[i].isListening
                          /\ ~ThreadAlive(thr', inst'[i].thread)]_vars

\* C37: the current sounddevice backend after a PortAudioError: no call is
\* pending, its capture thread has ended, the stop signal is set and it is
\* not listening, while the user has more to say.
C37_Witness ==
    /\ current # 0
    /\ HardFailed(current)
    /\ ~inst[current].isListening
    /\ \A t \in ThrIds : thr[t].inst # current
    /\ utter < speech

\* C38: a keyboard thread that a stop_listening has left behind, blocked in
\* input(), ends with the next line or end-of-input it reads and delivers
\* nothing.
C38_ReadAfterStopEndsThread ==
    [][\A t \in ThrIds :
          (/\ thr[t].pc = "blocked"
           /\ KindOf(t) = "keyboard"
           /\ inst[thr[t].inst].thread # t
           /\ thr'[t] # thr[t]) =>
              /\ thr'[t].pc = "free"
              /\ delivered' = delivered]_vars

\* C34: the name of the current recognizer is never in failed_recognizers,
\* also after a switch_recognizer to the current recognizer's own name that
\* did not switch.
C34_CurrentNeverFailed ==
    (current # 0 /\ call.op = "none") => recognizer_name \notin failed_recognizers

\* C31: when a start_listening and a stop_listening of the same backend
\* that ran at the same time have both returned, the start has not raised,
\* and if the backend is listening, its thread reference holds its one live
\* capture thread (if it is not listening, any thread left ends at its next
\* check).
C31_RaceEqualsSequentialOrder ==
    (race.start \in {"done", "raised"} /\ race.stop = "done") =>
        /\ race.start = "done"
        /\ inst[current].isListening =>
              /\ ThreadAlive(thr, inst[current].thread)
              /\ Cardinality({t \in ThrIds : thr[t].inst = current}) = 1

====
